---- MODULE Spec2Model ----
(***************************************************************************)
(* State-machine model of the interactive visualizers of                   *)
(* sidpy/viz/dataset_viz.py: ImageStackVisualizer, SpectralImageVisualizer *)
(* and FourDimImageVisualizer.  Dimensions are numbered from 0 as in the   *)
(* source; Python lists are sequences read with At(list, i).  The arrays    *)
(* handed to matplotlib are modelled by their shapes: imshow and set_data  *)
(* raise TypeError for a shape that is not an image.                       *)
(***************************************************************************)
EXTENDS Integers, Sequences, FiniteSets, TLC

\* ------------------------------------------------------------------ bounds
\* axis lengths range over 1..MaxLen
MaxLen == 3
\* the session ends once MaxRaised event handlers have ended in an exception
MaxRaised == 1

\* the bins set_bin is called with, and the pixels int(event.xdata) of a click
BinArgs == (-1)..(MaxLen + 1)
Pixels == (-1)..(MaxLen + 1)

\* numbers of axes of the datasets handed to ImageStackVisualizer
StackDims == {2, 3, 4}

\* axis lengths of the datasets constructed with keyword overrides range over
\* 1..MaxCtorLen
MaxCtorLen == 2

\* numbers of axes of the datasets handed to ImageVisualizer, and the values
\* of its image_number argument
ImageDims == {2, 3}
ImageNumbers == (-1)..(MaxLen + 1)

\* ------------------------------------------------------------ the dataset
\* sidpy DimensionType members used by the visualizers
DimensionType == {"SPATIAL", "RECIPROCAL", "SPECTRAL", "TEMPORAL", "UNKNOWN"}

Lens == 1..MaxLen

\* d is a dataset with n axes, each with a length and a dimension_type of types
IsDataset(d, n, types) ==
    \E s \in [0..(n - 1) -> Lens], t \in [0..(n - 1) -> types] :
        d = [shape |-> s, dimension_type |-> t]

\* dset.ndim / len(dset.shape)
ndim(d) == Cardinality(DOMAIN d.shape)

\* len(dset): the length of the first axis of the array
len(d) == d.shape[0]

\* list[i] of a Python list
At(list, i) == list[i + 1]

\* ----------------------------------------------------------------- slices
\* slice(a, b)
Slice(a, b) == [all |-> FALSE, start |-> a, stop |-> b]

\* slice(None)
SliceNone == [all |-> TRUE, start |-> 0, stop |-> 0]

\* a slice bound as Python places it on an axis of length n
SliceBound(i, n) ==
    IF i < 0 THEN (IF i + n < 0 THEN 0 ELSE i + n)
    ELSE (IF i > n THEN n ELSE i)

\* number of elements slice s selects on an axis of length n
SliceLen(s, n) ==
    IF s.all THEN n
    ELSE LET a == SliceBound(s.start, n)
             b == SliceBound(s.stop, n)
         IN  IF b > a THEN b - a ELSE 0

\* list with element i replaced: list[i] = v
SetAt(list, i, v) == [list EXCEPT ![i + 1] = v]

\* ------------------------------------------------------------ array shapes
\* the shape of dset[tuple(selection)]
RECURSIVE SelectedShape(_, _, _)
SelectedShape(d, sel, dim) ==
    IF dim = ndim(d) THEN <<>>
    ELSE <<SliceLen(At(sel, dim), d.shape[dim])>> \o SelectedShape(d, sel, dim + 1)

\* squeeze() left out: the axes of length 1 are kept
Squeeze_Kept(shape) == shape

\* the shape of array.squeeze(): the axes of length 1 are dropped
Squeeze(shape) == SelectSeq(shape, LAMBDA n : n # 1)

\* the shape of array.T: the axes reversed
Transpose(shape) == [i \in 1..Len(shape) |-> shape[Len(shape) + 1 - i]]

\* the lengths of the axes listed in axes
ShapeOf(d, axes) == [i \in 1..Len(axes) |-> d.shape[axes[i]]]

\* the arrays imshow(...) and img.set_data(...) take as image data: (M, N),
\* (M, N, 3) and (M, N, 4); any other shape raises TypeError
ImageShapeOk(shape) ==
    \/ Len(shape) = 2
    \/ Len(shape) = 3 /\ shape[3] \in {3, 4}

VARIABLES
    cls,      \* the visualizer class being used
    dset,     \* the dataset handed to the constructor
    status,   \* "new" before __init__, "ok" after it, else the exception it raised
    kwargs,   \* the keyword arguments handed to the constructor
    self,     \* the instance attributes (and the widgets' values)
    raised,   \* the exception the last event handler ended with, "none" otherwise
    nraised   \* how many event handlers have ended in an exception

vars == <<cls, dset, status, kwargs, self, raised, nraised>>

\* **kwargs without any of the keys the constructors pop
NoKwargs == [k \in {} |-> 0]

\* the instance before __init__ has run
NoSelf == [none |-> TRUE]

\* ====================================================== ImageVisualizer
\* the loop over dset._axes.items() of ImageVisualizer.__init__
RECURSIVE ImageScan(_, _, _, _)
ImageScan(d, image_number, dim, acc) ==
    IF dim = ndim(d) THEN acc
    ELSE IF d.dimension_type[dim] \in {"SPATIAL", "RECIPROCAL"}
         THEN ImageScan(d, image_number, dim + 1,
                  [acc EXCEPT !.selection = Append(@, SliceNone),
                              !.image_dims = Append(@, dim)])
         ELSE IF image_number <= d.shape[dim]
              THEN ImageScan(d, image_number, dim + 1,
                       [acc EXCEPT !.selection =
                                       Append(@, Slice(image_number, image_number + 1))])
              ELSE ImageScan(d, image_number, dim + 1,
                       [acc EXCEPT !.image_number = 0,
                                   !.selection = Append(@, Slice(0, 1))])

\* ImageVisualizer.__init__(dset, image_number=...): the exception raised, if
\* any, and the attributes assigned by then
ImageVisualizer(d, image_number) ==
    LET acc == ImageScan(d, image_number, 0,
                   [image_number |-> image_number, selection |-> <<>>, image_dims |-> <<>>])
    IN  IF Len(acc.image_dims) # 2
        THEN [status |-> "ValueError: We need two dimensions with dimension_type SPATIAL or RECIPROCAL",
              self |-> acc]
        ELSE IF ~ImageShapeOk(Transpose(Squeeze(SelectedShape(d, acc.selection, 0))))
        THEN [status |-> "TypeError: Invalid shape for image data", self |-> acc]
        ELSE [status |-> "ok", self |-> acc]

\* the constructor call
ImageVisualizer_init ==
    /\ cls = "ImageVisualizer"
    /\ status = "new"
    /\ LET r == ImageVisualizer(dset, kwargs.image_number)
       IN  /\ status' = r.status
           /\ self' = r.self
    /\ UNCHANGED <<cls, dset, kwargs, raised, nraised>>

\* image: any dataset of 2 or 3 axes and any image_number
InitImage ==
    /\ cls = "ImageVisualizer"
    /\ \E n \in ImageDims : IsDataset(dset, n, DimensionType)
    /\ \E image_number \in ImageNumbers : kwargs = [image_number |-> image_number]
    /\ status = "new"
    /\ self = NoSelf
    /\ raised = "none"
    /\ nraised = 0

NextImage == ImageVisualizer_init

SpecImage == InitImage /\ [][NextImage]_vars

\* ================================================= ImageStackVisualizer
\* the frame shown by img.set_data(dset[tuple(selection)].squeeze().T)
FrameView(d, selection, stack_dim, frame) ==
    [data    |-> "frame",
     frame   |-> frame,
     nframes |-> SliceLen(At(selection, stack_dim), d.shape[stack_dim]),
     axis    |-> stack_dim]

\* the loop over dset._axes.items() of ImageStackVisualizer.__init__
RECURSIVE StackScan(_, _, _)
StackScan(d, dim, acc) ==
    IF dim = ndim(d) THEN acc
    ELSE IF d.dimension_type[dim] \in {"SPATIAL", "RECIPROCAL"}
         THEN StackScan(d, dim + 1,
                  [acc EXCEPT !.selection = Append(@, SliceNone),
                              !.image_dims = Append(@, dim)])
         ELSE IF d.dimension_type[dim] = "TEMPORAL" \/ len(d) = 3
              THEN StackScan(d, dim + 1,
                       [acc EXCEPT !.selection = Append(@, Slice(0, 1)),
                                   !.stack_dim = dim])
              ELSE StackScan(d, dim + 1,
                       [acc EXCEPT !.selection = Append(@, Slice(0, 1))])

\* ImageStackVisualizer.__init__: the exception raised, or the new instance
ImageStackVisualizer(d) ==
    IF ndim(d) < 3
    THEN [status |-> "KeyError: dataset must have at least three dimensions",
          self |-> NoSelf]
    ELSE LET acc == StackScan(d, 0,
                        [stack_dim |-> -1, image_dims |-> <<>>, selection |-> <<>>])
         IN  IF Len(acc.image_dims) # 2
             THEN [status |-> "ValueError: We need two dimensions with dimension_type spatial",
                   self |-> NoSelf]
             ELSE IF acc.stack_dim < 0
             THEN [status |-> "KeyError: We need one dimensions with dimension_type stack, time or frame",
                   self |-> NoSelf]
             ELSE IF ~ImageShapeOk(Transpose(Squeeze(SelectedShape(d, acc.selection, 0))))
             THEN [status |-> "TypeError: Invalid shape for image data",
                   self |-> NoSelf]
             ELSE LET sel0 == SetAt(acc.selection, acc.stack_dim, Slice(0, 1))
                  IN [status |-> "ok",
                      self |-> [stack_dim        |-> acc.stack_dim,
                                image_dims       |-> acc.image_dims,
                                selection        |-> sel0,
                                ind              |-> 0,
                                number_of_slices |-> d.shape[acc.stack_dim],
                                slider           |-> 0,
                                button           |-> FALSE,
                                img |-> FrameView(d, sel0, acc.stack_dim, 0)]]

\* the constructor call
ImageStackVisualizer_init ==
    /\ cls = "ImageStackVisualizer"
    /\ status = "new"
    /\ LET r == ImageStackVisualizer(dset)
       IN  /\ status' = r.status
           /\ self' = r.self
    /\ UNCHANGED <<cls, dset, kwargs, raised, nraised>>

\* ImageStackVisualizer._update(frame)
StackUpdate(d, s, frame) ==
    LET sel == SetAt(s.selection, s.stack_dim, Slice(frame, frame + 1))
    IN  [s EXCEPT !.ind = frame,
                  !.selection = sel,
                  !.img = FrameView(d, sel, s.stack_dim, frame)]

\* the slider (or the play widget linked to it) moves to another value of its
\* range min=0 .. max=number_of_slices and calls _update(frame=value) through
\* ipywidgets' interactive, which catches and prints what _update raises
update ==
    /\ cls = "ImageStackVisualizer"
    /\ status = "ok"
    /\ nraised < MaxRaised
    /\ \E frame \in 0..self.number_of_slices :
          /\ frame # self.slider
          /\ self' = StackUpdate(dset, [self EXCEPT !.slider = frame], frame)
    /\ raised' = "none"
    /\ UNCHANGED <<cls, dset, status, kwargs, nraised>>

\* a scroll whose slider assignment does not reach _update
StackOnScroll_NoObserver(d, s, button) ==
    LET v == IF button = "up"
             THEN (s.slider + 1) % s.number_of_slices
             ELSE (s.slider - 1) % s.number_of_slices
    IN  [s EXCEPT !.slider = v, !.ind = v]

\* ImageStackVisualizer._onscroll(event): assigning slider.value calls
\* _update through the slider's observer when the value changes
StackOnScroll(d, s, button) ==
    LET v  == IF button = "up"
              THEN (s.slider + 1) % s.number_of_slices
              ELSE (s.slider - 1) % s.number_of_slices
        s1 == [s EXCEPT !.slider = v]
        s2 == IF v # s.slider THEN StackUpdate(d, s1, v) ELSE s1
    IN  [s2 EXCEPT !.ind = v]

onscroll ==
    /\ cls = "ImageStackVisualizer"
    /\ status = "ok"
    /\ nraised < MaxRaised
    /\ \E button \in {"up", "down"} :
          self' = StackOnScroll(dset, self, button)
    /\ raised' = "none"
    /\ UNCHANGED <<cls, dset, status, kwargs, nraised>>

\* axes of dset[stack_selection].squeeze(): those whose selected length is not 1
RECURSIVE SqueezedAxes(_, _, _)
SqueezedAxes(d, sel, dim) ==
    IF dim = ndim(d) THEN <<>>
    ELSE IF SliceLen(At(sel, dim), d.shape[dim]) = 1
         THEN SqueezedAxes(d, sel, dim + 1)
         ELSE <<dim>> \o SqueezedAxes(d, sel, dim + 1)

\* _average_slices with stack_selection an alias of self.selection, not a copy
StackAverageSlices_NoCopy(d, s, new) ==
    IF new
    THEN IF ndim(d) = 3
         THEN [raised |-> "none",
               self |-> [s EXCEPT !.button = TRUE,
                                  !.img = [data |-> "mean", frame |-> -1,
                                           nframes |-> s.number_of_slices,
                                           axis |-> s.stack_dim]]]
         ELSE LET stack_selection == SetAt(s.selection, s.stack_dim, SliceNone)
                  kept == SqueezedAxes(d, stack_selection, 0)
                  s1 == [s EXCEPT !.selection = stack_selection, !.button = TRUE]
              IN  IF s.stack_dim >= Len(kept)
                  THEN [raised |-> "AxisError", self |-> s1]
                  ELSE IF ~ImageShapeOk(Transpose(ShapeOf(d,
                              SelectSeq(kept, LAMBDA dim : dim # At(kept, s.stack_dim)))))
                  THEN [raised |-> "TypeError: Invalid shape for image data", self |-> s1]
                  ELSE [raised |-> "none",
                        self |-> [s1 EXCEPT !.img = [data |-> "mean", frame |-> -1,
                                                     nframes |-> d.shape[At(kept, s.stack_dim)],
                                                     axis |-> At(kept, s.stack_dim)]]]
    ELSE [raised |-> "none",
          self |-> StackUpdate(d, [s EXCEPT !.button = FALSE],
                               s.ind % s.number_of_slices)]

\* ImageStackVisualizer._average_slices(event) with event.new = new:
\* [raised, self]
StackAverageSlices(d, s, new) ==
    IF new
    THEN IF ndim(d) = 3
         THEN [raised |-> "none",
               self |-> [s EXCEPT !.button = TRUE,
                                  !.img = [data |-> "mean", frame |-> -1,
                                           nframes |-> s.number_of_slices,
                                           axis |-> s.stack_dim]]]
         ELSE LET stack_selection == SetAt(s.selection, s.stack_dim, SliceNone)
                  kept == SqueezedAxes(d, stack_selection, 0)
              IN  IF s.stack_dim >= Len(kept)
                  THEN [raised |-> "AxisError", self |-> [s EXCEPT !.button = TRUE]]
                  ELSE IF ~ImageShapeOk(Transpose(ShapeOf(d,
                              SelectSeq(kept, LAMBDA dim : dim # At(kept, s.stack_dim)))))
                  THEN [raised |-> "TypeError: Invalid shape for image data",
                        self |-> [s EXCEPT !.button = TRUE]]
                  ELSE [raised |-> "none",
                        self |-> [s EXCEPT !.button = TRUE,
                                           !.img = [data |-> "mean", frame |-> -1,
                                                    nframes |-> d.shape[At(kept, s.stack_dim)],
                                                    axis |-> At(kept, s.stack_dim)]]]
    ELSE [raised |-> "none",
          self |-> StackUpdate(d, [s EXCEPT !.button = FALSE],
                               s.ind % s.number_of_slices)]

\* the Average toggle button changes value
average_slices ==
    /\ cls = "ImageStackVisualizer"
    /\ status = "ok"
    /\ nraised < MaxRaised
    /\ LET r == StackAverageSlices(dset, self, ~self.button)
       IN  /\ self' = r.self
           /\ raised' = r.raised
           /\ nraised' = IF r.raised = "none" THEN nraised ELSE nraised + 1
    /\ UNCHANGED <<cls, dset, status, kwargs>>

\* ============================ SpectralImageVisualizer / FourDimImageVisualizer
\* ---- exact arithmetic for the rectangle's float geometry: <<numerator, denominator>>
Abs(i) == IF i < 0 THEN -i ELSE i

RECURSIVE GCD(_, _)
GCD(a, b) == IF b = 0 THEN a ELSE GCD(b, a % b)

\* the fraction n/d in lowest terms with a positive denominator (d # 0)
Rat(n, d) ==
    LET g == GCD(Abs(n), Abs(d))
        sgn == IF d < 0 THEN -1 ELSE 1
    IN  <<sgn * (n \div g), sgn * (d \div g)>>

RInt(i) == <<i, 1>>
RMul(p, q) == Rat(p[1] * q[1], p[2] * q[2])
RDiv(p, q) == Rat(p[1] * q[2], p[2] * q[1])
RAdd(p, q) == Rat(p[1] * q[2] + q[1] * p[2], p[2] * q[2])
RIsZero(p) == p[1] = 0

\* Python int(): truncation toward zero
Trunc(p) == IF p[1] >= 0 THEN p[1] \div p[2] ELSE -((-p[1]) \div p[2])

\* set_bin's argument: a scalar or a list of two
IsList(bin_xy) == Len(bin_xy) = 2

\* a clamp that steps the cursor back by one bin instead of to size - bin
ClampView_Subtract(d, s) ==
    LET size0 == d.shape[At(s.image_dims, 0)]
        size1 == d.shape[At(s.image_dims, 1)]
    IN  [s EXCEPT !.x = IF s.x > size0 - s.bin_x THEN s.x - s.bin_x ELSE s.x,
                  !.y = IF s.y > size1 - s.bin_y THEN s.y - s.bin_y ELSE s.y]

\* the clamp at the head of get_spectrum / get_image_4d
ClampView(d, s) ==
    LET size0 == d.shape[At(s.image_dims, 0)]
        size1 == d.shape[At(s.image_dims, 1)]
    IN  [s EXCEPT !.x = IF s.x > size0 - s.bin_x THEN size0 - s.bin_x ELSE s.x,
                  !.y = IF s.y > size1 - s.bin_y THEN size1 - s.bin_y ELSE s.y]

\* the selection loop of SpectralImageVisualizer.get_spectrum
RECURSIVE SpectrumSelection(_, _, _)
SpectrumSelection(d, s, dim) ==
    IF dim = ndim(d) THEN <<>>
    ELSE LET sl == IF d.dimension_type[dim] = "SPATIAL"
                   THEN IF dim = At(s.image_dims, 0)
                        THEN Slice(s.x, s.x + s.bin_x)
                        ELSE Slice(s.y, s.y + s.bin_y)
                   ELSE IF d.dimension_type[dim] = "SPECTRAL"
                        THEN SliceNone
                        ELSE Slice(0, 1)
         IN  <<sl>> \o SpectrumSelection(d, s, dim + 1)

\* SpectralImageVisualizer.get_spectrum
get_spectrum(d, s) ==
    LET c == ClampView(d, s)
    IN  [c EXCEPT !.selection = SpectrumSelection(d, c, 0)]

\* the selection loop of FourDimImageVisualizer.get_image_4d
RECURSIVE Image4dSelection(_, _, _)
Image4dSelection(d, s, dim) ==
    IF dim = ndim(d) THEN <<>>
    ELSE LET sl == IF dim = At(s.image_dims, 0)
                   THEN Slice(s.x, s.x + s.bin_x)
                   ELSE IF dim = At(s.image_dims, 1)
                        THEN Slice(s.y, s.y + s.bin_y)
                        ELSE IF dim \in {At(s.dims_4d, 0), At(s.dims_4d, 1)}
                             THEN SliceNone
                             ELSE Slice(0, 1)
         IN  <<sl>> \o Image4dSelection(d, s, dim + 1)

\* FourDimImageVisualizer.get_image_4d
get_image_4d(d, s) ==
    LET c == ClampView(d, s)
    IN  [c EXCEPT !.selection = Image4dSelection(d, c, 0)]

\* _update(): rebuild the view of the class at hand
NavUpdate(c, d, s) ==
    IF c = "SpectralImageVisualizer" THEN get_spectrum(d, s) ELSE get_image_4d(d, s)

\* rect.set_xy([x * width / bin_x + rectangle[0], y * height / bin_y + rectangle[2]])
\* (bin_x # 0 and bin_y # 0)
RectXY(s) ==
    <<RAdd(RDiv(RMul(RInt(s.x), s.rect.width), RInt(s.bin_x)), RInt(At(s.rectangle, 0))),
      RAdd(RDiv(RMul(RInt(s.y), s.rect.height), RInt(s.bin_y)), RInt(At(s.rectangle, 2)))>>

\* set_bin(bin_xy) of both classes: [raised, self]
SetBin(c, d, s, bin_xy) ==
    LET size0 == d.shape[At(s.image_dims, 0)]
        size1 == d.shape[At(s.image_dims, 1)]
        old_bin_x == s.bin_x
        old_bin_y == s.bin_y
        arg_x == bin_xy[1]
        arg_y == IF IsList(bin_xy) THEN bin_xy[2] ELSE bin_xy[1]
        bx == IF arg_x > size0 THEN size0 ELSE arg_x
        by == IF arg_y > size1 THEN size1 ELSE arg_y
        s1 == [s EXCEPT !.bin_x = bx, !.bin_y = by]
    IN  IF old_bin_x = 0
        THEN [raised |-> "ZeroDivisionError", self |-> s1]
        ELSE
    LET s2 == [s1 EXCEPT !.rect.width = RDiv(RMul(@, RInt(bx)), RInt(old_bin_x))]
    IN  IF old_bin_y = 0
        THEN [raised |-> "ZeroDivisionError", self |-> s2]
        ELSE
    LET s3 == [s2 EXCEPT !.rect.height = RDiv(RMul(@, RInt(by)), RInt(old_bin_y))]
        s4 == [s3 EXCEPT !.x = IF s.x + bx > size0 THEN d.shape[0] - bx ELSE s.x,
                         !.y = IF s.y + by > size1 THEN d.shape[1] - by ELSE s.y]
    IN  IF bx = 0 \/ by = 0
        THEN [raised |-> "ZeroDivisionError", self |-> s4]
        ELSE [raised |-> "none",
              self |-> NavUpdate(c, d, [s4 EXCEPT !.rect.xy = RectXY(s4)])]

\* the cell without the bin: int(x / width)
ClickCell_NoBin(x, width, bin) == Trunc(RDiv(RInt(x), width))

\* int(x / (self.rect.get_width() / self.bin_x)) (width # 0 and bin # 0)
ClickCell(x, width, bin) == Trunc(RDiv(RInt(x), RDiv(width, RInt(bin))))

\* _onclick(event) of both classes: [raised, self]
OnClick(c, d, s, inaxes, xdata, ydata) ==
    LET size0 == d.shape[At(s.image_dims, 0)]
        size1 == d.shape[At(s.image_dims, 1)]
        x == xdata - At(s.rectangle, 0)
        y == ydata - At(s.rectangle, 2)
    IN  IF inaxes /\ x >= 0 /\ y >= 0 /\ x <= At(s.rectangle, 1) /\ y <= At(s.rectangle, 3)
        THEN IF s.bin_x = 0 \/ RIsZero(s.rect.width)
             THEN [raised |-> "ZeroDivisionError", self |-> s]
             ELSE
             LET s1 == [s EXCEPT !.x = ClickCell(x, s.rect.width, s.bin_x)]
             IN  IF s.bin_y = 0 \/ RIsZero(s.rect.height)
                 THEN [raised |-> "ZeroDivisionError", self |-> s1]
                 ELSE
             LET s2 == [s1 EXCEPT !.y = ClickCell(y, s.rect.height, s.bin_y)]
                 s3 == [s2 EXCEPT !.x = IF s2.x + s.bin_x > size0 THEN size0 - s.bin_x ELSE s2.x,
                                  !.y = IF s2.y + s.bin_y > size1 THEN size1 - s.bin_y ELSE s2.y]
             IN  [raised |-> "none",
                  self |-> NavUpdate(c, d, [s3 EXCEPT !.rect.xy = RectXY(s3)])]
        ELSE [raised |-> "none", self |-> NavUpdate(c, d, s)]

\* the attributes both constructors set before the first view is built
NavSelf(d, image_dims) ==
    [x |-> 0, y |-> 0, bin_x |-> 1, bin_y |-> 1,
     image_dims |-> image_dims,
     extent    |-> <<0, d.shape[At(image_dims, 0)], d.shape[At(image_dims, 1)], 0>>,
     rectangle |-> <<0, d.shape[At(image_dims, 0)], 0, d.shape[At(image_dims, 1)]>>,
     rect |-> [xy |-> <<RInt(0), RInt(0)>>, width |-> RInt(1), height |-> RInt(1)],
     selection |-> <<>>]

\* the loop over dset._axes.items() of SpectralImageVisualizer.__init__
RECURSIVE SpectralScan(_, _, _)
SpectralScan(d, dim, acc) ==
    IF dim = ndim(d) THEN acc
    ELSE IF d.dimension_type[dim] \in {"SPATIAL", "RECIPROCAL"}
         THEN SpectralScan(d, dim + 1,
                  [acc EXCEPT !.selection = Append(@, SliceNone),
                              !.image_dims = Append(@, dim)])
         ELSE IF d.dimension_type[dim] = "SPECTRAL"
              THEN SpectralScan(d, dim + 1,
                       [acc EXCEPT !.selection = Append(@, Slice(0, 1)),
                                   !.spectral_dims = Append(@, dim)])
              ELSE SpectralScan(d, dim + 1,
                       [acc EXCEPT !.selection = Append(@, Slice(0, 1))])

\* the axes of dset.squeeze(): those of length other than 1
RECURSIVE SqueezeAll(_, _)
SqueezeAll(d, dim) ==
    IF dim = ndim(d) THEN <<>>
    ELSE IF d.shape[dim] = 1 THEN SqueezeAll(d, dim + 1)
         ELSE <<dim>> \o SqueezeAll(d, dim + 1)

\* the axes of dset.mean(axis=...): those not averaged
RECURSIVE MeanAxes(_, _, _)
MeanAxes(d, axes, dim) ==
    IF dim = ndim(d) THEN <<>>
    ELSE IF dim \in axes THEN MeanAxes(d, axes, dim + 1)
         ELSE <<dim>> \o MeanAxes(d, axes, dim + 1)

\* SpectralImageVisualizer.__init__: the exception raised, or the new instance;
\* self.image is recorded as the dataset axes it keeps
SpectralImageVisualizer(d) ==
    IF ndim(d) < 3
    THEN [status |-> "KeyError: dataset must have at least three dimensions",
          self |-> NoSelf]
    ELSE LET acc == SpectralScan(d, 0,
                        [image_dims |-> <<>>, spectral_dims |-> <<>>, selection |-> <<>>])
         IN  IF Len(acc.image_dims) # 2
             THEN [status |-> "ValueError: We need two dimensions with dimension_type SPATIA",
                   self |-> NoSelf]
             ELSE IF Len(acc.spectral_dims) # 1
             THEN [status |-> "KeyError: We need one dimension with dimension_type SPECTRAL",
                   self |-> NoSelf]
             ELSE LET s0 == [k \in {"spec_dim", "image"} \cup DOMAIN NavSelf(d, acc.image_dims) |->
                               IF k = "spec_dim" THEN At(acc.spectral_dims, 0)
                               ELSE IF k = "image"
                                    THEN IF \E dim \in DOMAIN d.shape : d.shape[dim] = 1
                                         THEN SqueezeAll(d, 0)
                                         ELSE MeanAxes(d, {At(acc.spectral_dims, 0)}, 0)
                                    ELSE NavSelf(d, acc.image_dims)[k]]
                  IN  IF ~ImageShapeOk(Transpose(ShapeOf(d, s0.image)))
                      THEN [status |-> "TypeError: Invalid shape for image data",
                            self |-> NoSelf]
                      ELSE [status |-> "ok", self |-> get_spectrum(d, s0)]

\* the loop with scan_x filled before scan_y
RECURSIVE FourDimScan_XFirst(_, _, _)
FourDimScan_XFirst(d, dim, acc) ==
    IF dim = ndim(d) THEN acc
    ELSE IF d.dimension_type[dim] = "SPATIAL"
         THEN IF acc.scan_x = <<>>
              THEN FourDimScan_XFirst(d, dim + 1, [acc EXCEPT !.scan_x = <<dim>>])
              ELSE IF acc.scan_y = <<>>
                   THEN FourDimScan_XFirst(d, dim + 1, [acc EXCEPT !.scan_y = <<dim>>])
                   ELSE FourDimScan_XFirst(d, dim + 1, acc)
         ELSE FourDimScan_XFirst(d, dim + 1, acc)

\* the loop over dset._axes.items() of FourDimImageVisualizer.__init__;
\* scan_x and scan_y are <<>> for None and <<dim>> otherwise
RECURSIVE FourDimScan(_, _, _)
FourDimScan(d, dim, acc) ==
    IF dim = ndim(d) THEN acc
    ELSE IF d.dimension_type[dim] = "SPATIAL"
         THEN IF acc.scan_y = <<>>
              THEN FourDimScan(d, dim + 1, [acc EXCEPT !.scan_y = <<dim>>])
              ELSE IF acc.scan_x = <<>>
                   THEN FourDimScan(d, dim + 1, [acc EXCEPT !.scan_x = <<dim>>])
                   ELSE FourDimScan(d, dim + 1, acc)
         ELSE FourDimScan(d, dim + 1, acc)

\* kwargs.pop(key, None)
Pop(kw, key) == IF key \in DOMAIN kw THEN <<kw[key]>> ELSE <<>>

\* the loop without its break: the last free axis is kept
FirstFree_NoBreak(taken) ==
    IF \E dim \in 0..3 : dim \notin taken
    THEN <<CHOOSE dim \in 0..3 : dim \notin taken /\ \A e \in (dim + 1)..3 : e \in taken>>
    ELSE <<>>

\* for dim in range(4): if dim not in taken: ... break
FirstFree(taken) ==
    IF \E dim \in 0..3 : dim \notin taken
    THEN <<CHOOSE dim \in 0..3 : dim \notin taken /\ \A e \in 0..(dim - 1) : e \in taken>>
    ELSE <<>>

\* numpy's mean(axis=axes) raises ValueError when an axis is listed twice
DuplicateAxis(axes) == At(axes, 0) = At(axes, 1)

\* Dataset.mean(axis=axes) of a sidpy Dataset: rejects a pair of axes that is
\* not two distinct axes
DatasetMeanRaises(axes) == At(axes, 0) = At(axes, 1)

\* the shape of self.dset[tuple(selection)].mean(axis=tuple(self.image_dims))
Image4dShape(d, s) ==
    LET shape == SelectedShape(d, s.selection, 0)
    IN  SelectSeq([i \in 1..Len(shape) |-> IF (i - 1) \in {At(s.image_dims, 0), At(s.image_dims, 1)}
                                            THEN -1 ELSE shape[i]],
                  LAMBDA n : n # -1)

\* FourDimImageVisualizer.__init__: the exception raised, or the new instance
FourDimImageVisualizer(d, kw) ==
    IF ndim(d) < 4
    THEN [status |-> "KeyError: dataset must have at least four dimensions",
          self |-> NoSelf]
    ELSE LET acc == FourDimScan(d, 0, [scan_x |-> Pop(kw, "scan_x"),
                                       scan_y |-> Pop(kw, "scan_y")])
             dflt == acc.scan_y = <<>> \/ acc.scan_x = <<>>
             scan_y == IF dflt THEN 0 ELSE acc.scan_y[1]
             scan_x == IF dflt THEN 1 ELSE acc.scan_x[1]
             image_y == IF Pop(kw, "image_4d_y") = <<>>
                        THEN FirstFree({scan_x, scan_y})
                        ELSE Pop(kw, "image_4d_y")
             image_x == IF Pop(kw, "image_4d_x") = <<>>
                        THEN FirstFree({scan_x, scan_y} \cup {image_y[i] : i \in DOMAIN image_y})
                        ELSE Pop(kw, "image_4d_x")
         IN  IF image_x = <<>> \/ image_y = <<>>
             THEN [status |-> "TypeError: an axis of dims_4d is None", self |-> NoSelf]
             ELSE IF DuplicateAxis(image_x \o image_y)
             THEN [status |-> "ValueError: duplicate value in 'axis'", self |-> NoSelf]
             ELSE LET image_dims == <<scan_x, scan_y>>
                      dims_4d == <<image_x[1], image_y[1]>>
                      s0 == [k \in {"dims_4d", "image"} \cup DOMAIN NavSelf(d, image_dims) |->
                               IF k = "dims_4d" THEN dims_4d
                               ELSE IF k = "image"
                                    THEN MeanAxes(d, {image_x[1], image_y[1]}, 0)
                                    ELSE NavSelf(d, image_dims)[k]]
                      s1 == get_image_4d(d, s0)
                  IN  IF ~ImageShapeOk(Transpose(ShapeOf(d, s0.image)))
                      THEN [status |-> "TypeError: Invalid shape for image data",
                            self |-> NoSelf]
                      ELSE IF DatasetMeanRaises(image_dims)
                      THEN [status |-> "ValueError: duplicate value in 'axis'",
                            self |-> NoSelf]
                      ELSE IF ~ImageShapeOk(Squeeze(Image4dShape(d, s1)))
                      THEN [status |-> "TypeError: Invalid shape for image data",
                            self |-> NoSelf]
                      ELSE [status |-> "ok", self |-> s1]

\* the constructor calls
SpectralImageVisualizer_init ==
    /\ cls = "SpectralImageVisualizer"
    /\ status = "new"
    /\ LET r == SpectralImageVisualizer(dset)
       IN  /\ status' = r.status
           /\ self' = r.self
    /\ UNCHANGED <<cls, dset, kwargs, raised, nraised>>

FourDimImageVisualizer_init ==
    /\ cls = "FourDimImageVisualizer"
    /\ status = "new"
    /\ LET r == FourDimImageVisualizer(dset, kwargs)
       IN  /\ status' = r.status
           /\ self' = r.self
    /\ UNCHANGED <<cls, dset, kwargs, raised, nraised>>

\* an event handler of the two classes has run with outcome r
NavEvent(r) ==
    /\ self' = r.self
    /\ raised' = r.raised
    /\ nraised' = IF r.raised = "none" THEN nraised ELSE nraised + 1
    /\ UNCHANGED <<cls, dset, status, kwargs>>

\* set_bin(bin_xy) with a scalar or a list of two, the bins taken from args
SetBinCall(args) ==
    /\ cls \in {"SpectralImageVisualizer", "FourDimImageVisualizer"}
    /\ status = "ok"
    /\ nraised < MaxRaised
    /\ \E bin_xy \in { <<b>> : b \in args } \cup (args \X args) :
          NavEvent(SetBin(cls, dset, self, bin_xy))

\* set_bin called with any integer
set_bin == SetBinCall(BinArgs)

\* set_bin called with bins of at least 1
set_bin_positive == SetBinCall({ b \in BinArgs : b >= 1 })

\* a mouse click in self.axes[0] at int(event.xdata), int(event.ydata), or one
\* elsewhere in the figure, whose position the handler does not read
onclick ==
    /\ cls \in {"SpectralImageVisualizer", "FourDimImageVisualizer"}
    /\ status = "ok"
    /\ nraised < MaxRaised
    /\ \/ \E xdata \in Pixels, ydata \in Pixels :
             NavEvent(OnClick(cls, dset, self, TRUE, xdata, ydata))
       \/ NavEvent(OnClick(cls, dset, self, FALSE, 0, 0))

\* the 4D datasets of the navigation specifications: two SPATIAL scan axes at
\* any two places and two axes of another type
IsScanDataset(d) ==
    /\ IsDataset(d, 4, {"SPATIAL", "UNKNOWN"})
    /\ Cardinality({ dim \in 0..3 : d.dimension_type[dim] = "SPATIAL" }) = 2

\* spectral-image and 4D-image: the datasets handed to the constructors
InitNav ==
    /\ \/ cls = "SpectralImageVisualizer" /\ IsDataset(dset, 3, DimensionType)
       \/ cls = "FourDimImageVisualizer" /\ IsScanDataset(dset)
    /\ status = "new"
    /\ kwargs = NoKwargs
    /\ self = NoSelf
    /\ raised = "none"
    /\ nraised = 0

NextNav ==
    \/ SpectralImageVisualizer_init
    \/ FourDimImageVisualizer_init
    \/ set_bin
    \/ onclick

SpecNav == InitNav /\ [][NextNav]_vars

\* the same with every bin passed to set_bin at least 1
NextNavPositive ==
    \/ SpectralImageVisualizer_init
    \/ FourDimImageVisualizer_init
    \/ set_bin_positive
    \/ onclick

SpecNavPositive == InitNav /\ [][NextNavPositive]_vars

\* the keyword arguments FourDimImageVisualizer pops, and the axes a caller
\* names with them
OverrideKeys == {"scan_x", "scan_y", "image_4d_x", "image_4d_y"}
OverrideAxes == 0..3

\* 4D-image construction with any subset of the overrides
InitFourDim ==
    /\ cls = "FourDimImageVisualizer"
    /\ \E s \in [0..3 -> 1..MaxCtorLen], t \in [0..3 -> {"SPATIAL", "UNKNOWN"}] :
          dset = [shape |-> s, dimension_type |-> t]
    /\ \E keys \in SUBSET OverrideKeys : \E kw \in [keys -> OverrideAxes] : kwargs = kw
    /\ status = "new"
    /\ self = NoSelf
    /\ raised = "none"
    /\ nraised = 0

NextFourDim == FourDimImageVisualizer_init

SpecFourDim == InitFourDim /\ [][NextFourDim]_vars

\* image-stack: any dataset of 2..MaxStackDim axes is handed to the constructor
InitStack ==
    /\ cls = "ImageStackVisualizer"
    /\ \E n \in StackDims : IsDataset(dset, n, DimensionType)
    /\ status = "new"
    /\ kwargs = NoKwargs
    /\ self = NoSelf
    /\ raised = "none"
    /\ nraised = 0

NextStack ==
    \/ ImageStackVisualizer_init
    \/ update
    \/ onscroll
    \/ average_slices

SpecStack == InitStack /\ [][NextStack]_vars

\* the clamp at the head of get_spectrum / get_image_4d on its own: any cursor,
\* any bin and any axis lengths, clamped and clamped again
InitClamp ==
    /\ cls \in {"SpectralImageVisualizer", "FourDimImageVisualizer"}
    /\ \E shape \in [0..1 -> Lens] :
          dset = [shape |-> shape, dimension_type |-> [dim \in 0..1 |-> "SPATIAL"]]
    /\ \E x \in Pixels, y \in Pixels, bin_x \in BinArgs, bin_y \in BinArgs :
          self = [x |-> x, y |-> y, bin_x |-> bin_x, bin_y |-> bin_y,
                  image_dims |-> <<0, 1>>]
    /\ status = "new"
    /\ kwargs = NoKwargs
    /\ raised = "none"
    /\ nraised = 0

\* lines 560-563 / 792-795 run once more; kwargs keeps the cursor and bin
\* before and after the first run
clamp ==
    /\ status \in {"new", "once"}
    /\ self' = ClampView(dset, self)
    /\ status' = IF status = "new" THEN "once" ELSE "twice"
    /\ kwargs' = IF status = "new" THEN [before |-> self, once |-> self'] ELSE kwargs
    /\ UNCHANGED <<cls, dset, raised, nraised>>

NextClamp == clamp

SpecClamp == InitClamp /\ [][NextClamp]_vars

\* ================================================================ properties
\* a constructed SpectralImageVisualizer or FourDimImageVisualizer
Nav == cls \in {"SpectralImageVisualizer", "FourDimImageVisualizer"} /\ status = "ok"

\* a constructed ImageStackVisualizer
Stack == cls = "ImageStackVisualizer" /\ status = "ok"

\* the lengths of the two navigation axes
size_x == dset.shape[At(self.image_dims, 0)]
size_y == dset.shape[At(self.image_dims, 1)]

\* C1: at the end of every click and set_bin event the bin window lies inside the
\* navigation axes: x + bin_x <= length of axis image_dims[0] and
\* y + bin_y <= length of axis image_dims[1].
C1_WindowInsideAxes ==
    Nav => /\ self.x + self.bin_x <= size_x
           /\ self.y + self.bin_y <= size_y

\* C2: with every bin passed to set_bin at least 1, the cursor is never negative.
C2_CursorNonNegative ==
    Nav => self.x >= 0 /\ self.y >= 0

\* C3: after every click or set_bin event the rectangle's top-left corner is
\* (x * width / bin_x + origin_x, y * height / bin_y + origin_y) for the cursor
\* (x, y) the selection of that event was built from.
C3_RectangleAtCursor ==
    Nav => self.rect.xy = RectXY(self)

\* C4: the frame index stays inside the stack, 0 <= ind < number_of_slices, and
\* the selection's range on the stack axis selects exactly one frame.
C4_FrameIndexInStack ==
    Stack => /\ 0 <= self.ind
             /\ self.ind < self.number_of_slices
             /\ SliceLen(At(self.selection, self.stack_dim), self.number_of_slices) = 1

\* C5: after any set_bin call, 1 <= bin_x <= length of navigation axis 0 and
\* 1 <= bin_y <= length of navigation axis 1.
C5_BinInsideAxis ==
    Nav => /\ 1 <= self.bin_x /\ self.bin_x <= size_x
           /\ 1 <= self.bin_y /\ self.bin_y <= size_y

\* C6: no event handler ends in an exception.
C6_NoHandlerRaises ==
    raised = "none"

\* C7: with more than one frame, scroll(down) then scroll(up) brings the frame
\* index back to the value it had.
C7_ScrollRoundTrip ==
    (Stack /\ self.number_of_slices > 1) =>
        StackOnScroll(dset, StackOnScroll(dset, self, "down"), "up").ind = self.ind

\* C8: toggling average on and then off, with nothing in between, restores the
\* frame index held before toggling on.
C8_AverageRoundTrip ==
    (Stack /\ ~self.button) =>
        StackAverageSlices(dset, StackAverageSlices(dset, self, TRUE).self, FALSE).self.ind
            = self.ind

\* C9: once the stack mean is displayed, it stays displayed for as long as the
\* average button stays on, whatever scroll and slider events happen.
C9_MeanWhileAveraging ==
    [][(Stack /\ status' = "ok" /\ self.button /\ self'.button /\ self.img.data = "mean")
          => self'.img.data = "mean"]_vars

\* the dimensions of d tagged with one of types
DimsOfType(d, types) == { dim \in DOMAIN d.shape : d.dimension_type[dim] \in types }

\* C10: every 3-axis dataset with exactly two SPATIAL/RECIPROCAL axes and no
\* TEMPORAL axis is accepted by ImageStackVisualizer, with the remaining axis as
\* the stack axis.
C10_ResidualStackAxis ==
    (/\ cls = "ImageStackVisualizer"
     /\ status # "new"
     /\ ndim(dset) = 3
     /\ Cardinality(DimsOfType(dset, {"SPATIAL", "RECIPROCAL"})) = 2
     /\ DimsOfType(dset, {"TEMPORAL"}) = {})
        => /\ status = "ok"
           /\ DimsOfType(dset, {"SPATIAL", "RECIPROCAL"}) \cup {self.stack_dim} = 0..2

\* C11: ImageStackVisualizer construction fails whenever no stack axis can be
\* inferred: the dataset has no TEMPORAL axis and does not have exactly 3 axes.
C11_NoStackAxisFails ==
    (/\ cls = "ImageStackVisualizer"
     /\ status # "new"
     /\ ndim(dset) # 3
     /\ DimsOfType(dset, {"TEMPORAL"}) = {})
        => status # "ok"

\* C12: ImageStackVisualizer construction rejects a dataset with two image axes
\* and more than one TEMPORAL axis: the stack axis is ambiguous.
C12_AmbiguousStackAxisFails ==
    (/\ cls = "ImageStackVisualizer"
     /\ status # "new"
     /\ Cardinality(DimsOfType(dset, {"SPATIAL", "RECIPROCAL"})) = 2
     /\ Cardinality(DimsOfType(dset, {"TEMPORAL"})) > 1)
        => status # "ok"

\* C13: for every image_number, ImageVisualizer gives every non-image axis a
\* range [i, i+1) with 0 <= i < axis length, so the block it extracts holds
\* exactly one element along each non-image axis.
C13_OneElementPerFixedAxis ==
    (/\ cls = "ImageVisualizer"
     /\ status # "new"
     /\ Len(self.image_dims) = 2)
        => \A dim \in DOMAIN dset.shape :
              dset.dimension_type[dim] \notin {"SPATIAL", "RECIPROCAL"}
                 => /\ ~At(self.selection, dim).all
                    /\ 0 <= At(self.selection, dim).start
                    /\ At(self.selection, dim).start < dset.shape[dim]
                    /\ At(self.selection, dim).stop = At(self.selection, dim).start + 1
                    /\ SliceLen(At(self.selection, dim), dset.shape[dim]) = 1

\* C14: SpectralImageVisualizer construction on a dataset of at least 3 axes
\* succeeds exactly when there are two SPATIAL/RECIPROCAL axes and one SPECTRAL
\* axis; it fails with the image-dimension ValueError when the image axes are
\* not 2, and with the spectral-dimension KeyError when they are 2 but the
\* SPECTRAL axes are not 1.
C14_SpectralClassification ==
    (cls = "SpectralImageVisualizer" /\ status # "new" /\ ndim(dset) >= 3)
        => LET images == Cardinality(DimsOfType(dset, {"SPATIAL", "RECIPROCAL"}))
               spectra == Cardinality(DimsOfType(dset, {"SPECTRAL"}))
           IN  /\ (status = "ok") <=> (images = 2 /\ spectra = 1)
               /\ images # 2
                     => status = "ValueError: We need two dimensions with dimension_type SPATIA"
               /\ (images = 2 /\ spectra # 1)
                     => status = "KeyError: We need one dimension with dimension_type SPECTRAL"

\* C15: in a SpectralImageVisualizer, whether the navigation axes are SPATIAL or
\* RECIPROCAL, the selection has one range per axis: [x, x+bin_x) on navigation
\* axis 0, [y, y+bin_y) on navigation axis 1, everything on the spectral axis
\* and [0, 1) elsewhere, and the navigation ranges select bin_x and bin_y cells.
C15_SelectionFollowsCursor ==
    (cls = "SpectralImageVisualizer" /\ status = "ok")
        => /\ Len(self.selection) = ndim(dset)
           /\ \A dim \in DOMAIN dset.shape :
                 At(self.selection, dim) =
                    IF dim = At(self.image_dims, 0) THEN Slice(self.x, self.x + self.bin_x)
                    ELSE IF dim = At(self.image_dims, 1) THEN Slice(self.y, self.y + self.bin_y)
                    ELSE IF dim = self.spec_dim THEN SliceNone
                    ELSE Slice(0, 1)
           /\ SliceLen(At(self.selection, At(self.image_dims, 0)), size_x) = self.bin_x
           /\ SliceLen(At(self.selection, At(self.image_dims, 1)), size_y) = self.bin_y

\* a constructed FourDimImageVisualizer and its resolved axes
FourDim == cls = "FourDimImageVisualizer" /\ status = "ok"
scan_x == At(self.image_dims, 0)
scan_y == At(self.image_dims, 1)
image_x == At(self.dims_4d, 0)
image_y == At(self.dims_4d, 1)

\* the lowest and the highest axis of a set of axes
Lowest(axes) == CHOOSE a \in axes : \A b \in axes : a <= b
Highest(axes) == CHOOSE a \in axes : \A b \in axes : a >= b

\* C16: without overrides the first SPATIAL axis is scan_y and the second is
\* scan_x, or scan_y = 0 and scan_x = 1 with fewer than two SPATIAL axes; the
\* 4D-slice axes are the two remaining axes; roles [SPATIAL, UNKNOWN, SPATIAL,
\* UNKNOWN] give scan_y = 0, scan_x = 2 and 4D-slice axes {1, 3}.
C16_ScanAxisInference ==
    (FourDim /\ kwargs = NoKwargs)
        => LET spatial == DimsOfType(dset, {"SPATIAL"})
           IN  /\ Cardinality(spatial) >= 2
                     => /\ scan_y = Lowest(spatial)
                        /\ scan_x = Lowest(spatial \ {scan_y})
               /\ Cardinality(spatial) < 2 => scan_y = 0 /\ scan_x = 1
               /\ {image_x, image_y} = (0..3) \ {scan_x, scan_y}
               /\ dset.dimension_type = <<"SPATIAL", "UNKNOWN", "SPATIAL", "UNKNOWN">>
                     => scan_y = 0 /\ scan_x = 2 /\ {image_x, image_y} = {1, 3}

C16_Witness ==
    /\ FourDim
    /\ kwargs = NoKwargs
    /\ dset.dimension_type = [dim \in 0..3 |-> IF dim \in {0, 2} THEN "SPATIAL" ELSE "UNKNOWN"]
    /\ self.image_dims = <<2, 0>>

\* C17: every override the caller passes is the resolved value of its slot.
C17_OverridesWin ==
    FourDim
        => /\ "scan_x" \in DOMAIN kwargs => scan_x = kwargs["scan_x"]
           /\ "scan_y" \in DOMAIN kwargs => scan_y = kwargs["scan_y"]
           /\ "image_4d_x" \in DOMAIN kwargs => image_x = kwargs["image_4d_x"]
           /\ "image_4d_y" \in DOMAIN kwargs => image_y = kwargs["image_4d_y"]

NoImageOverrides == DOMAIN kwargs \cap {"image_4d_x", "image_4d_y"} = {}

\* C19: without image overrides, image_x is the lower and image_y the higher of
\* the two axes left by the scan axes.
C19_ImageAxesAscending ==
    (FourDim /\ NoImageOverrides)
        => /\ image_x = Lowest((0..3) \ {scan_x, scan_y})
           /\ image_y = Highest((0..3) \ {scan_x, scan_y})

\* C19 as amended: without image overrides, image_y is the lower and image_x
\* the higher of the two axes left by the scan axes.
C19_ImageAxesYFirst ==
    (FourDim /\ NoImageOverrides)
        => /\ image_y = Lowest((0..3) \ {scan_x, scan_y})
           /\ image_x = Highest((0..3) \ {scan_x, scan_y})

C19_Witness ==
    /\ FourDim
    /\ DOMAIN kwargs = {"scan_x", "scan_y"}
    /\ self.image_dims = <<3, 1>>
    /\ self.dims_4d = <<2, 0>>

\* floor of a fraction with a positive denominator
Floor(p) == p[1] \div p[2]

\* the cursor the click mapping of the specification gives on an axis of
\* length size: floor(pixel / (width / bin)), lowered to size - bin when the
\* window would pass the end of the axis
ClampedCell(pixel, width, bin, size) ==
    LET cell == Floor(RDiv(RInt(pixel), RDiv(width, RInt(bin))))
    IN  IF cell + bin > size THEN size - bin ELSE cell

\* C20: a click inside the rectangle sets the cursor to
\* floor((pixel - origin) / (rectangle size / bin)) on each axis and then
\* lowers it so that x + bin_x and y + bin_y do not pass the axis lengths; with
\* origin 0, width 10 and bin 2 a click at pixel 5 gives cell 1.
C20_ClickMapping ==
    /\ ClickCell(5, RInt(10), 2) = 1
    /\ (Nav /\ self.bin_x # 0 /\ self.bin_y # 0
            /\ ~RIsZero(self.rect.width) /\ ~RIsZero(self.rect.height))
          => \A xdata \in Pixels, ydata \in Pixels :
                LET x == xdata - At(self.rectangle, 0)
                    y == ydata - At(self.rectangle, 2)
                    r == OnClick(cls, dset, self, TRUE, xdata, ydata)
                IN  (x >= 0 /\ y >= 0 /\ x < At(self.rectangle, 1) /\ y < At(self.rectangle, 3))
                       => /\ r.raised = "none"
                          /\ r.self.x = ClampedCell(x, self.rect.width, self.bin_x, size_x)
                          /\ r.self.y = ClampedCell(y, self.rect.height, self.bin_y, size_y)
                          /\ r.self.x + r.self.bin_x <= size_x
                          /\ r.self.y + r.self.bin_y <= size_y

\* a click at pixel (2, 1) has moved the cursor of a 2 x 2 bin window
C20_Witness ==
    /\ Nav
    /\ raised = "none"
    /\ self.bin_x = 2 /\ self.bin_y = 2
    /\ self.x = 1 /\ self.y = 1
    /\ size_x = 3 /\ size_y = 3

\* the arguments of set_bin, a scalar or a list of two, with bins taken from args
BinCalls(args) == { <<b>> : b \in args } \cup (args \X args)

\* C21: a click outside the rectangle (negative relative to the origin, or at
\* or beyond the rectangle's extent on either axis) leaves the cursor, the bin
\* sizes and the rectangle's position unchanged.
C21_OutsideClickIgnored ==
    Nav => \A xdata \in Pixels, ydata \in Pixels :
              LET x == xdata - At(self.rectangle, 0)
                  y == ydata - At(self.rectangle, 2)
                  r == OnClick(cls, dset, self, TRUE, xdata, ydata)
              IN  (x < 0 \/ y < 0 \/ x >= At(self.rectangle, 1) \/ y >= At(self.rectangle, 3))
                     => /\ r.self.x = self.x
                        /\ r.self.y = self.y
                        /\ r.self.bin_x = self.bin_x
                        /\ r.self.bin_y = self.bin_y
                        /\ r.self.rect.xy = self.rect.xy

\* C22: set_bin scales the rectangle with the bins, width = new bin_x * (old
\* width / old bin_x) and height likewise, so after any sequence of set_bin
\* calls the rectangle is bin_x wide and bin_y high (ratio 1, as constructed).
C22_RectangleScalesWithBin ==
    Nav => \A bin_xy \in BinCalls(BinArgs) :
              LET r == SetBin(cls, dset, self, bin_xy).self
              IN  /\ self.bin_x >= 1
                        => r.rect.width = RMul(RInt(r.bin_x), RDiv(self.rect.width, RInt(self.bin_x)))
                  /\ self.bin_y >= 1
                        => r.rect.height = RMul(RInt(r.bin_y), RDiv(self.rect.height, RInt(self.bin_y)))
                  /\ r.bin_x # 0 => RDiv(r.rect.width, RInt(r.bin_x)) = RInt(1)
                  /\ r.bin_y # 0 => RDiv(r.rect.height, RInt(r.bin_y)) = RInt(1)

\* C23: when the new bins, clamped to the axis lengths, still fit at the cursor,
\* set_bin leaves the cursor and the rectangle's top-left corner unchanged.
C23_AnchorPreserved ==
    Nav => \A bin_xy \in BinCalls({ b \in BinArgs : b >= 1 }) :
              LET r == SetBin(cls, dset, self, bin_xy).self
              IN  (self.x + r.bin_x <= size_x /\ self.y + r.bin_y <= size_y)
                     => /\ r.x = self.x
                        /\ r.y = self.y
                        /\ r.rect.xy = self.rect.xy

\* C24: the cursor clamp used when building a selection is idempotent: for every
\* cursor, bin and axis length, applying it twice in a row gives the same cursor
\* and bin as applying it once.
C24_ClampIdempotent ==
    status = "twice" => /\ self.x = kwargs.once.x
                        /\ self.y = kwargs.once.y
                        /\ self.bin_x = kwargs.once.bin_x
                        /\ self.bin_y = kwargs.once.bin_y

\* clamped twice, the first clamp having lowered both coordinates of the cursor
C24_Witness ==
    /\ status = "twice"
    /\ kwargs.before.x > self.x /\ self.x = size_x - self.bin_x
    /\ kwargs.before.y > self.y /\ self.y = size_y - self.bin_y

\* C25: in spectral-image mode the navigation image is the mean of the full
\* array over the spectral axis, so it keeps exactly the two navigation axes,
\* for every dataset shape the constructor accepts, shapes with an axis of
\* length 1 included.
C25_NavigationImageIsSpectralMean ==
    (cls = "SpectralImageVisualizer" /\ status = "ok")
       => /\ self.image = MeanAxes(dset, {self.spec_dim}, 0)
          /\ self.image = self.image_dims

\* C26: toggle_average(on) reduces exactly the stack axis for every dataset the
\* image-stack constructor accepts, datasets with more than 3 axes included:
\* the handler does not fail, the axis averaged is the original stack axis with
\* all its frames, and the result is an image.
C26_AverageOverStackAxis ==
    (Stack /\ ~self.button)
       => LET r == StackAverageSlices(dset, self, TRUE)
          IN  /\ r.raised = "none"
              /\ r.self.img.data = "mean"
              /\ r.self.img.axis = self.stack_dim
              /\ r.self.img.nframes = self.number_of_slices

\* the three copies of the frame position agree in instance s
FramePositionsAgree(s) ==
    /\ s.ind = s.slider
    /\ At(s.selection, s.stack_dim) = Slice(s.ind, s.ind + 1)

\* C27: in ImageStackVisualizer, after every scroll or set_frame event ind
\* equals the slider value and the selection's range on the stack axis is
\* exactly [ind, ind + 1).
C27_FramePositionsAgree ==
    [][(update \/ onscroll) => FramePositionsAgree(self')]_vars

\* a stack of three frames scrolled or slid to its last frame
C27_Witness ==
    /\ Stack
    /\ self.number_of_slices = 3
    /\ self.slider = 2
    /\ FramePositionsAgree(self)

\* C28: in ImageStackVisualizer, scroll, set_frame and toggle_average events
\* change the stored selection only on the stack axis: after any sequence of
\* events the two image axes keep the full-extent range and every other
\* non-stack axis keeps the range [0, 1), and toggle_average(on) leaves the
\* stored selection as it is.
C28_SelectionFrame ==
    Stack => /\ Len(self.selection) = ndim(dset)
             /\ \A dim \in DOMAIN dset.shape :
                   dim # self.stack_dim
                      => At(self.selection, dim) =
                            IF dim \in {At(self.image_dims, 0), At(self.image_dims, 1)}
                            THEN SliceNone
                            ELSE Slice(0, 1)
             /\ StackAverageSlices(dset, self, TRUE).self.selection = self.selection

\* a stack with an extra axis, slid to frame 1 and then averaged
C28_Witness ==
    /\ Stack
    /\ ndim(dset) = 4
    /\ self.ind = 1
    /\ self.button
    /\ raised = "none"
    /\ self.img.data = "mean"
    /\ At(self.selection, self.stack_dim) = Slice(1, 2)

====
